---- MODULE Spec2Model ----
(***************************************************************************)
(* A model of the hybrid retrieval worker (src/src/index.ts): the chunker, *)
(* the BM25 keyword engine over the D1 tables of src/schema.sql, reciprocal*)
(* rank fusion, the reranker step, the ingestion engine and the /search,   *)
(* /ingest and DELETE /documents/:id handlers of fetch.                    *)
(*                                                                         *)
(* Strings are sequences of one-character strings, so that length, slice,  *)
(* trim, split and the tokenizer's regular expressions are computed         *)
(* character by character as JavaScript computes them.                     *)
(***************************************************************************)
EXTENDS Integers, Sequences, FiniteSets, Bags, TLC

(***************************************************************************)
(* Characters and the string primitives of JavaScript used by the code.    *)
(***************************************************************************)
NL == "\n"

SP == " "

LowerSeq == << "a", "b", "c", "d", "e", "f", "g", "h", "i", "j", "k", "l", "m",
               "n", "o", "p", "q", "r", "s", "t", "u", "v", "w", "x", "y", "z" >>

UpperSeq == << "A", "B", "C", "D", "E", "F", "G", "H", "I", "J", "K", "L", "M",
               "N", "O", "P", "Q", "R", "S", "T", "U", "V", "W", "X", "Y", "Z" >>

DigitSeq == << "0", "1", "2", "3", "4", "5", "6", "7", "8", "9" >>

Range(f) == {f[i] : i \in DOMAIN f}

\* \s of a JavaScript regular expression (the ASCII part)
IsSpace(c) == c \in {" ", NL, "\t", "\r", "\f"}

\* \w of a JavaScript regular expression: [A-Za-z0-9_]
IsWordChar(c) == c \in Range(LowerSeq) \cup Range(UpperSeq) \cup Range(DigitSeq) \cup {"_"}

\* String.prototype.toLowerCase, one character
LowerChar(c) ==
    IF c \in Range(UpperSeq)
    THEN LowerSeq[CHOOSE i \in DOMAIN UpperSeq : UpperSeq[i] = c]
    ELSE c

toLowerCase(s) == [i \in 1..Len(s) |-> LowerChar(s[i])]

\* String.prototype.trim
trim(s) ==
    IF \A i \in 1..Len(s) : IsSpace(s[i])
    THEN << >>
    ELSE LET f == CHOOSE i \in 1..Len(s) :
                      ~IsSpace(s[i]) /\ \A j \in 1..(i-1) : IsSpace(s[j])
             l == CHOOSE i \in 1..Len(s) :
                      ~IsSpace(s[i]) /\ \A j \in (i+1)..Len(s) : IsSpace(s[j])
         IN  SubSeq(s, f, l)

\* s.slice(-n): the last n characters, the whole string when it is shorter
sliceLast(s, n) ==
    IF n = 0 THEN s   \* slice(-0) is slice(0)
    ELSE SubSeq(s, (IF Len(s) > n THEN Len(s) - n + 1 ELSE 1), Len(s))

\* Array.prototype.slice(0, n)
sliceFirst(s, n) == SubSeq(s, 1, IF Len(s) < n THEN Len(s) ELSE n)

\* the elements of a finite set of integers in increasing order
RECURSIVE SortedSeq(_)
SortedSeq(S) ==
    IF S = {} THEN << >>
    ELSE LET m == CHOOSE x \in S : \A y \in S : x <= y
         IN  << m >> \o SortedSeq(S \ {m})

\* the subsequence of s at the positions in idx (a set of indices), in order
SelectSeq2(s, idx) ==
    LET order == SortedSeq(idx)
    IN  [j \in 1..Len(order) |-> s[order[j]]]

(***************************************************************************)
(* text.split(sep) where sep matches the maximal runs, of length >= minRun,*)
(* of characters of the set seps: /\n\n+/ is ({NL}, 2), /\s+/ is           *)
(* (WhiteSpace, 1). A run at the start or the end of the text yields an    *)
(* empty piece, as in JavaScript.                                          *)
(***************************************************************************)
WhiteSpace == {" ", "\n", "\t", "\r", "\f"}

RunStarts(t, seps, minRun) ==
    {i \in 1..Len(t) :
        /\ t[i] \in seps
        /\ (i = 1 \/ t[i-1] \notin seps)
        /\ i + minRun - 1 <= Len(t)
        /\ \A k \in i..(i + minRun - 1) : t[k] \in seps}

RunEnd(t, seps, i) ==
    CHOOSE j \in i..Len(t) :
        (\A k \in i..j : t[k] \in seps) /\ (j = Len(t) \/ t[j+1] \notin seps)

split(t, seps, minRun) ==
    LET starts == SortedSeq(RunStarts(t, seps, minRun))
        n      == Len(starts)
        \* piece p (1..n+1) lies between run p-1 and run p
        from(p) == IF p = 1 THEN 1 ELSE RunEnd(t, seps, starts[p-1]) + 1
        to(p)   == IF p = n + 1 THEN Len(t) ELSE starts[p] - 1
    IN  [p \in 1..(n+1) |-> SubSeq(t, from(p), to(p))]

(***************************************************************************)
(* Identifiers. A document or chunk id is a string; the model keeps it as  *)
(* the sequence of its pieces, so that `${documentId}-chunk-${chunkIndex}` *)
(* is concatenation and the document id "a-chunk-0" is the same value as   *)
(* the id of chunk 0 of document "a".                                      *)
(***************************************************************************)
ChunkId(documentId, chunkIndex) == documentId \o << "-chunk-", chunkIndex >>

(***************************************************************************)
(* ChunkingEngine                                                          *)
(***************************************************************************)
maxChunkSize == 512

\* overlapPercent = 0.15, kept as a number of hundredths
overlapPercent == 15

minChunkSize == 100

\* Math.floor(this.maxChunkSize * this.overlapPercent)
overlapSize == (maxChunkSize * overlapPercent) \div 100

\* text.split(/\n\n+/).filter(p => p.trim())
paragraphsOf(text) ==
    LET pieces == split(text, {NL}, 2)
    IN  SelectSeq2(pieces, {i \in DOMAIN pieces : trim(pieces[i]) # << >>})

\* a chunk whose chunkIndex field is read after the increment of line 55
\* without the "- 1"
MkChunkOffByOne(documentId, content, chunkIndex) ==
    [id |-> ChunkId(documentId, chunkIndex), content |-> content,
     parentId |-> documentId, chunkIndex |-> chunkIndex + 1]

MkChunk(documentId, content, chunkIndex) ==
    [id |-> ChunkId(documentId, chunkIndex), content |-> content,
     parentId |-> documentId, chunkIndex |-> chunkIndex]

\* the for loop of chunk over paragraphs[i..]: the state of the loop is
\* (currentChunk, chunkIndex, chunks); the result is that state at loop exit
RECURSIVE chunkLoop(_, _, _, _, _, _)
chunkLoop(paragraphs, i, currentChunk, chunkIndex, chunks, documentId) ==
    IF i > Len(paragraphs)
    THEN [currentChunk |-> currentChunk, chunkIndex |-> chunkIndex, chunks |-> chunks]
    ELSE LET paragraph == paragraphs[i]
             emit == /\ Len(currentChunk \o << NL, NL >> \o paragraph) > maxChunkSize
                     /\ trim(currentChunk) # << >>
             chunks1 == IF emit
                        THEN Append(chunks, MkChunk(documentId, trim(currentChunk), chunkIndex))
                        ELSE chunks
             index1 == IF emit THEN chunkIndex + 1 ELSE chunkIndex
             seed == IF emit THEN sliceLast(currentChunk, overlapSize) ELSE currentChunk
             next == seed \o (IF seed # << >> THEN << NL, NL >> ELSE << >>) \o paragraph
         IN  chunkLoop(paragraphs, i + 1, next, index1, chunks1, documentId)

\* chunk without the fallback of line 62: "return chunks"
chunkNoFallback(text, documentId) ==
    LET exit == chunkLoop(paragraphsOf(text), 1, << >>, 0, << >>, documentId)
    IN  IF Len(trim(exit.currentChunk)) >= minChunkSize
        THEN Append(exit.chunks,
                    MkChunk(documentId, trim(exit.currentChunk), exit.chunkIndex))
        ELSE exit.chunks

chunk(text, documentId) ==
    LET exit == chunkLoop(paragraphsOf(text), 1, << >>, 0, << >>, documentId)
        chunks == IF Len(trim(exit.currentChunk)) >= minChunkSize
                  THEN Append(exit.chunks,
                              MkChunk(documentId, trim(exit.currentChunk), exit.chunkIndex))
                  ELSE exit.chunks
    IN  IF Len(chunks) > 0 THEN chunks
        ELSE << MkChunk(documentId, trim(text), 0) >>

(***************************************************************************)
(* KeywordSearchEngine.tokenize                                            *)
(***************************************************************************)
stopWords ==
    { <<"t","h","e">>, <<"a">>, <<"a","n">>, <<"a","n","d">>, <<"o","r">>,
      <<"b","u","t">>, <<"i","n">>, <<"o","n">>, <<"a","t">>, <<"t","o">>,
      <<"f","o","r">>, <<"o","f">>, <<"w","i","t","h">>, <<"b","y">>, <<"i","s">>,
      <<"a","r","e">>, <<"w","a","s">>, <<"w","e","r","e">>, <<"b","e">>,
      <<"t","h","i","s">>, <<"t","h","a","t">>, <<"i","t">>, <<"t","h","e","y">>,
      <<"h","a","v","e">>, <<"h","a","s">>, <<"h","a","d">> }

\* .replace(/[^\w\s]/g, ' ')
stripNonWord(s) ==
    [i \in 1..Len(s) |-> IF IsWordChar(s[i]) \/ IsSpace(s[i]) THEN s[i] ELSE SP]

tokenize(text) ==
    LET pieces == split(stripNonWord(toLowerCase(text)), WhiteSpace, 1)
    IN  SelectSeq2(pieces, {i \in DOMAIN pieces :
                               Len(pieces[i]) > 2 /\ pieces[i] \notin stopWords})

\* termFreq: the number of occurrences of each distinct token
termFreq(tokens) ==
    [t \in Range(tokens) |-> Cardinality({i \in DOMAIN tokens : tokens[i] = t})]

(***************************************************************************)
(* Optional values (undefined / a missing JSON field) are sequences of     *)
(* length 0 or 1.                                                          *)
(***************************************************************************)
None == << >>

Some(v) == << v >>

(***************************************************************************)
(* Numbers. The rank-fusion scores are exact fractions [n, d]; the BM25    *)
(* scores, which go through Math.log, are fixed-point integers in          *)
(* millionths.                                                             *)
(***************************************************************************)
Rat(n, d) == [n |-> n, d |-> d]

RatAdd(a, b) == Rat(a.n * b.d + b.n * a.d, a.d * b.d)

RatLess(a, b) == a.n * b.d < b.n * a.d

RatEq(a, b) == a.n * b.d = b.n * a.d

RECURSIVE Pow2(_)
Pow2(e) == IF e = 0 THEN 1 ELSE 2 * Pow2(e - 1)

\* the number of fractional bits of the fixed-point binary logarithm
LogBits == 12

\* the fractional bits of log2 of the mantissa m (m / 2^LogBits in [1, 2)),
\* by repeated squaring; `bit` counts down from LogBits to 1
RECURSIVE Log2Frac(_, _)
Log2Frac(m, bit) ==
    IF bit = 0 THEN 0
    ELSE LET sq == (m * m) \div Pow2(LogBits)
         IN  IF sq >= Pow2(LogBits + 1)
             THEN Pow2(bit - 1) + Log2Frac(sq \div 2, bit - 1)
             ELSE Log2Frac(sq, bit - 1)

\* Math.log(p / q) in thousandths, for integers p >= q > 0
LnMilli(p, q) ==
    LET e == CHOOSE k \in 0..30 : q * Pow2(k) <= p /\ p < q * Pow2(k + 1)
        m == (p * Pow2(LogBits)) \div (q * Pow2(e))
        log2 == e * Pow2(LogBits) + Log2Frac(m, LogBits)
    IN  (log2 * 693) \div Pow2(LogBits)

(***************************************************************************)
(* KeywordSearchEngine: BM25 over the tables of schema.sql                 *)
(***************************************************************************)
\* k1 = 1.2 and b = 0.75, in tenths and hundredths
k1Tenths == 12

bHundredths == 75

\* idf without the "+ 1": Math.log((N - df + 0.5) / (df + 0.5)), the
\* logarithm of (2N - 2df + 1) / (2df + 1), negative when df > N / 2
idfMilliNoPlusOne(total_documents, document_frequency) ==
    IF 2 * total_documents - 2 * document_frequency + 1 >= 2 * document_frequency + 1
    THEN LnMilli(2 * total_documents - 2 * document_frequency + 1,
                 2 * document_frequency + 1)
    ELSE 0 - LnMilli(2 * document_frequency + 1,
                     2 * total_documents - 2 * document_frequency + 1)

\* idf = Math.log((N - df + 0.5) / (df + 0.5) + 1), in thousandths;
\* the argument is (N + 1) / (df + 0.5) = (2N + 2) / (2df + 1)
idfMilli(total_documents, document_frequency) ==
    IF 2 * total_documents + 2 >= 2 * document_frequency + 1
    THEN LnMilli(2 * total_documents + 2, 2 * document_frequency + 1)
    ELSE 0 - LnMilli(2 * document_frequency + 1, 2 * total_documents + 2)

\* tf = (tf * (k1 + 1)) / (tf + k1 * (1 - b + b * (doc_length / avg))), in
\* thousandths; avg is the fraction avg.n / avg.d. With k1 and b as above the
\* quotient is tf*(10+k1)*100*avg.n over
\* 10*100*tf*avg.n + k1*(100-b)*avg.n + k1*b*doc_length*avg.d.
\* A zero average makes doc_length / avg infinite and the quotient 0.
tfMilli(term_frequency, doc_length, avg) ==
    IF avg.n = 0 THEN 0
    ELSE (1000 * term_frequency * (10 + k1Tenths) * 100 * avg.n)
         \div (1000 * term_frequency * avg.n
               + k1Tenths * (100 - bHundredths) * avg.n
               + k1Tenths * bHundredths * doc_length * avg.d)

\* idf * tf of one joined row, in millionths
bm25Term(stats, r) ==
    idfMilli(stats.total_documents, r.document_frequency)
      * tfMilli(r.term_frequency, r.doc_length, stats.avg_doc_length)

(***************************************************************************)
(* Orders. Array.prototype.sort is stable: elements with equal keys keep   *)
(* their order. keys[i] is the fraction L[i] is sorted by, descending.     *)
(***************************************************************************)
\* no sort: the elements in the order they have
unsortedDesc(L, keys) == L

stableSortDesc(L, keys) ==
    LET pos(i) == 1 + Cardinality({j \in DOMAIN L :
                        \/ RatLess(keys[i], keys[j])
                        \/ (RatEq(keys[i], keys[j]) /\ j < i)})
    IN  [p \in 1..Len(L) |-> L[CHOOSE i \in DOMAIN L : pos(i) = p]]

\* The order in which a collaborator returns rows or matches is its own
\* choice. The model lets it choose between the two orders by this key.
DocNames == << "a", "b", "c" >>

RECURSIVE IdKey(_)
IdKey(id) ==
    IF Len(id) = 1
    THEN CHOOSE i \in DOMAIN DocNames : DocNames[i] = id[1]
    ELSE IdKey(SubSeq(id, 1, Len(id) - 2)) * 64 + id[Len(id)] + 1

Orders == {"asc", "desc"}

orderIds(ids, order) ==
    LET keys == SortedSeq({IdKey(id) : id \in ids})
        n == Len(keys)
    IN  [p \in 1..n |->
            CHOOSE id \in ids :
                IdKey(id) = keys[IF order = "asc" THEN p ELSE n + 1 - p]]

(***************************************************************************)
(* KeywordSearchEngine.search, after the statistics have been read         *)
(***************************************************************************)
\* SELECT ... FROM documents d JOIN keywords k ON d.id = k.document_id
\*   JOIN term_stats ts ON k.term = ts.term WHERE k.term IN (tokens)
\* `copies` is the number of identical joined rows
joinRows(documents, keywords, term_stats, tokens) ==
    {[id |-> d.id, content |-> d.content, term |-> k.term,
      term_frequency |-> k.term_frequency, doc_length |-> Len(d.content),
      document_frequency |-> term_stats[k.term], copies |-> keywords[k]] :
        <<d, k>> \in {<<d, k>> \in documents \X DOMAIN keywords :
                        /\ d.id = k.document_id
                        /\ k.term \in DOMAIN term_stats
                        /\ k.term \in Range(tokens)}}

RECURSIVE sumRows(_, _)
sumRows(stats, rows) ==
    IF rows = {} THEN 0
    ELSE LET r == CHOOSE r \in rows : TRUE
         IN  r.copies * bm25Term(stats, r) + sumRows(stats, rows \ {r})

\* the scores Map, its entries in the order in which the rows name the ids,
\* sorted by score and cut to topK
keywordRank(stats, rows, rowOrder, topK) ==
    LET ids == orderIds({r.id : r \in rows}, rowOrder)
        entry(id) == [id |-> id,
                      content |-> (CHOOSE r \in rows : r.id = id).content,
                      score |-> sumRows(stats, {r \in rows : r.id = id}),
                      source |-> "keyword"]
        entries == [i \in DOMAIN ids |-> entry(ids[i])]
        keys == [i \in DOMAIN ids |-> Rat(entries[i].score, 1)]
    IN  sliceFirst(stableSortDesc(entries, keys), topK)

(***************************************************************************)
(* HybridSearchEngine                                                      *)
(***************************************************************************)
rrfK == 60

\* 1 / (this.rrfK + rank), without the "+ 1"
rrfTermNoOffset(rank) == Rat(1, rrfK + rank)

\* 1 / (this.rrfK + rank + 1), rank counted from 0
rrfTerm(rank) == Rat(1, rrfK + rank + 1)

\* the position (from 1) of id in list, 0 when it is not there
indexOfId(list, id) ==
    IF \E i \in DOMAIN list : list[i].id = id
    THEN CHOOSE i \in DOMAIN list : list[i].id = id
    ELSE 0

\* for duplicate-free lists: the Map holds the vector results in their order,
\* then the keyword results that are not vector results
reciprocalRankFusion(vectorResults, keywordResults) ==
    LET fromVector(i) ==
            LET r == vectorResults[i]
                j == indexOfId(keywordResults, r.id)
            IN  [id |-> r.id, content |-> r.content, score |-> r.score,
                 source |-> "hybrid", vectorScore |-> Some(r.score),
                 keywordScore |-> IF j = 0 THEN None ELSE Some(keywordResults[j].score),
                 rerankerScore |-> None,
                 rrfScore |-> IF j = 0 THEN rrfTerm(i - 1)
                              ELSE RatAdd(rrfTerm(i - 1), rrfTerm(j - 1))]
        onlyKeyword == SortedSeq({j \in DOMAIN keywordResults :
                            indexOfId(vectorResults, keywordResults[j].id) = 0})
        fromKeyword(j) ==
            LET r == keywordResults[j]
            IN  [id |-> r.id, content |-> r.content, score |-> r.score,
                 source |-> "hybrid", vectorScore |-> None,
                 keywordScore |-> Some(r.score), rerankerScore |-> None,
                 rrfScore |-> rrfTerm(j - 1)]
        values == [i \in DOMAIN vectorResults |-> fromVector(i)]
                    \o [p \in DOMAIN onlyKeyword |-> fromKeyword(onlyKeyword[p])]
    IN  stableSortDesc(values, [i \in DOMAIN values |-> values[i].rrfScore])

\* the reranker sees the first 10 fused results
rerankTopN == 10

\* r.rrfScore * 0.4 + score * 0.6, with the weights in fifths
rrfWeight == 2

rerankerWeight == 3

\* line 161: reResp.data[i].score || 0 is scores[i] (0 when it is missing)
rerank(results, scores) ==
    LET top == sliceFirst(results, rerankTopN)
        sc(i) == IF i \in DOMAIN scores THEN scores[i] ELSE 0
        mapped == [i \in DOMAIN top |->
                     [top[i] EXCEPT
                        !.rerankerScore = Some(sc(i)),
                        !.rrfScore = Rat(rrfWeight * top[i].rrfScore.n
                                           + rerankerWeight * sc(i) * top[i].rrfScore.d,
                                         (rrfWeight + rerankerWeight) * top[i].rrfScore.d)]]
    IN  stableSortDesc(mapped, [i \in DOMAIN mapped |-> mapped[i].rrfScore])

\* env.VECTORIZE.query(embedding, { topK, returnMetadata: true }) mapped to
\* SearchResult[] (line 143); the similarity order is the index's choice
vectorQuery(vectors, order, topK) ==
    LET ids == sliceFirst(orderIds({v.id : v \in vectors}, order), topK)
    IN  [i \in DOMAIN ids |->
            [id |-> ids[i],
             content |-> (CHOOSE v \in vectors : v.id = ids[i]).content,
             score |-> 1000 - i,
             source |-> "vector"]]

(***************************************************************************)
(* The stores: the D1 tables of schema.sql and the Vectorize index.        *)
(*   documents   rows [id, content, parent_id, chunk_index]; id is the     *)
(*               primary key                                               *)
(*   keywords    a bag of rows [document_id, term, term_frequency] (the    *)
(*               autoincrement id is never read)                           *)
(*   term_stats  term -> document_frequency                                *)
(*   doc_stats   the row id = 1: [total_documents, avg_doc_length]         *)
(*   vectors     entries [id, content, parentId, chunkIndex] (the metadata;*)
(*               the embedding itself is opaque)                           *)
(***************************************************************************)
VARIABLES hasDB, documents, keywords, term_stats, doc_stats, vectors,
          rq, failures, hist

stores == << documents, keywords, term_stats, doc_stats, vectors >>

vars == << hasDB, documents, keywords, term_stats, doc_stats, vectors,
           rq, failures, hist >>

RECURSIVE GCD(_, _)
GCD(a, b) == IF b = 0 THEN a ELSE GCD(b, a % b)

Reduce(r) == LET g == GCD(r.n, r.d) IN IF g = 0 THEN r ELSE Rat(r.n \div g, r.d \div g)

\* a variant of the WHERE clause: WHERE parent_id = ?
matchesParentOnly(d, docId) == d.parent_id = docId

\* WHERE id = ? OR parent_id = ?
matches(d, docId) == d.id = docId \/ d.parent_id = docId

\* SELECT id FROM documents WHERE id = ? OR parent_id = ?
selectIds(docs, docId) == {d.id : d \in {x \in docs : matches(x, docId)}}

\* DELETE FROM documents WHERE id = ? OR parent_id = ?
deleteDocuments(docs, docId) == {d \in docs : ~matches(d, docId)}

\* a variant of the schema: keywords without ON DELETE CASCADE
cascadeKeywordsOff(kw, docs) == kw

\* FOREIGN KEY (document_id) REFERENCES documents(id) ON DELETE CASCADE
cascadeKeywords(kw, docs) ==
    LET keep == {k \in DOMAIN kw : k.document_id \in {d.id : d \in docs}}
    IN  [k \in keep |-> kw[k]]

\* env.VECTORIZE.deleteByIds(ids)
deleteByIds(vecs, ids) == {v \in vecs : v.id \notin ids}

\* a variant of the upsert: only the first vector of the batch is written
upsertFirst(vecs, new) ==
    {v \in vecs : v.id \notin {new[i].id : i \in DOMAIN new \cap {1}}}
        \cup {new[i] : i \in DOMAIN new \cap {1}}

\* env.VECTORIZE.upsert(vectors): an entry replaces the one with its id
upsert(vecs, new) ==
    {v \in vecs : v.id \notin {new[i].id : i \in DOMAIN new}} \cup Range(new)

\* the row that INSERT INTO documents writes for a chunk
documentRow(c) ==
    [id |-> c.id, content |-> c.content, parent_id |-> c.parentId,
     chunk_index |-> c.chunkIndex]

\* the entry that ingest pushes to `vectors` for a chunk
vectorOf(c) ==
    [id |-> c.id, content |-> c.content, parentId |-> c.parentId,
     chunkIndex |-> c.chunkIndex]

(***************************************************************************)
(* KeywordSearchEngine.indexDocument: the statements of the batch          *)
(***************************************************************************)
\* INSERT INTO keywords, one row per distinct term
indexKeywords(kw, docId, tf) ==
    kw (+) SetToBag({[document_id |-> docId, term |-> t, term_frequency |-> tf[t]] :
                        t \in DOMAIN tf})

\* INSERT INTO term_stats ... ON CONFLICT(term) DO UPDATE SET
\*   document_frequency = document_frequency + 1
indexTermStats(ts, tf) ==
    [t \in DOMAIN ts \cup DOMAIN tf |->
        IF t \notin DOMAIN tf THEN ts[t]
        ELSE IF t \in DOMAIN ts THEN ts[t] + 1 ELSE 1]

\* a batch without the UPDATE of line 86
indexDocStatsSkipped(ds, length) == ds

\* UPDATE doc_stats SET total_documents = total_documents + 1,
\*   avg_doc_length = ((avg_doc_length * total_documents) + ?) / (total_documents + 1)
indexDocStats(ds, length) ==
    [total_documents |-> ds.total_documents + 1,
     avg_doc_length |->
        Reduce(Rat(ds.avg_doc_length.n * ds.total_documents + length * ds.avg_doc_length.d,
                   ds.avg_doc_length.d * (ds.total_documents + 1)))]

(***************************************************************************)
(* Requests. rq[s] is the request handled in slot s: where it stands (pc), *)
(* its locals, the collaborator calls it has made (calls) and its response.*)
(* An action is the code from one await to the next.                       *)
(***************************************************************************)
Slots == {1}

NoResp == [status |-> 0, error |-> "", results |-> << >>, chunksCreated |-> 0]

NoStats == [total_documents |-> 0, avg_doc_length |-> Rat(0, 1)]

NoRq ==
    [pc |-> "idle", op |-> "none", body |-> << >>, id |-> << >>, content |-> << >>,
     existing |-> FALSE, ids |-> {}, chunks |-> << >>, k |-> 0, vectors |-> << >>,
     query |-> << >>, topK |-> 0, useReranker |-> FALSE, vres |-> << >>,
     stats |-> NoStats, kres |-> << >>, fused |-> << >>, rerankFailed |-> FALSE,
     calls |-> << >>, resp |-> NoResp]

\* hist: the last write request (ingest, delete) that has ended, while no
\* store has changed since; NoHist otherwise
NoHist == [op |-> "none", id |-> << >>, content |-> << >>, ok |-> FALSE,
           ids |-> {}, repeat |-> FALSE]

\* the slot holds no request
Free(s) == rq[s].pc = "idle"

\* no request is being handled: every slot is free or holds a response
Quiescent == \A s \in Slots : rq[s].pc \in {"idle", "done"}

Called(r, name) == Append(r.calls, name)

\* the response ends the request
respond(r, resp) == [r EXCEPT !.pc = "done", !.resp = resp]

ErrorResp(status, error) == [NoResp EXCEPT !.status = status, !.error = error]

\* what a write request that has ended leaves in hist: its arguments, whether
\* it succeeded, the ids its delete selected, and whether it repeats the
\* request before it
histOf(r) ==
    [op |-> r.op, id |-> r.id, content |-> r.content, ok |-> r.resp.status = 200,
     ids |-> r.ids,
     repeat |-> hist.ok /\ hist.op = r.op /\ hist.id = r.id /\ hist.content = r.content]

\* the number of collaborator failures in one behaviour
MaxFailures == 1

\* the largest doc_stats.total_documents (the counter only grows)
MaxTotal == 3

\* a collaborator call may fail while the budget of failures lasts
Outcomes == IF failures < MaxFailures THEN {TRUE, FALSE} ELSE {TRUE}

(***************************************************************************)
(* POST /search (fetch, lines 398-422)                                     *)
(***************************************************************************)
defaultTopK == 5

minTopK == 1

maxTopK == 20

\* a variant of the test: body.query === undefined
missingQueryUndefined(body) == body.query = None

\* !body.query: undefined and "" are falsy
missingQuery(body) == body.query = None \/ body.query = Some(<< >>)

\* body.topK || 5: undefined and 0 are falsy
effectiveTopK(body) ==
    IF body.topK = None \/ body.topK = Some(0) THEN defaultTopK ELSE body.topK[1]

\* a variant of the test: topK < 1 only
topKInRangeBelow(topK) == ~(topK < minTopK)

\* line 405: topK < 1 || topK > 20 is the error
topKInRange(topK) == ~(topK < minTopK \/ topK > maxTopK)

\* lines 401-407: the validation error, or "" for a body that passes
validateSearch(body) ==
    IF missingQuery(body) THEN "Missing 'query' field in request body"
    ELSE IF ~topKInRange(effectiveTopK(body)) THEN "topK must be between 1 and 20"
    ELSE ""

\* lines 409-418: the success response, results cut to topK (line 167)
searchResponse(r, results) ==
    [NoResp EXCEPT !.status = 200, !.results = sliceFirst(results, r.topK)]

\* line 419: whatever is thrown inside the try block is answered this way
searchCatch == ErrorResp(400, "Invalid JSON in request body")

\* a variant of the test of line 157: if (useReranker)
shouldRerankAlways(useReranker, fused) == useReranker

\* line 157: if (useReranker && results.length > 0)
shouldRerank(useReranker, fused) == useReranker /\ Len(fused) > 0

\* lines 153-168 once keywordResults is known: fuse, then rerank or answer
afterKeyword(r, keywordResults) ==
    LET fused == reciprocalRankFusion(r.vres, keywordResults)
        r1 == [r EXCEPT !.kres = keywordResults, !.fused = fused]
    IN  IF shouldRerank(r.useReranker, fused)
        THEN [r1 EXCEPT !.pc = "s_rerank"]
        ELSE respond(r1, searchResponse(r1, fused))

SearchStart(s, body) ==
    /\ Free(s)
    /\ rq' = [rq EXCEPT ![s] =
                IF validateSearch(body) # ""
                THEN respond([NoRq EXCEPT !.op = "search", !.body = body],
                             ErrorResp(400, validateSearch(body)))
                ELSE [NoRq EXCEPT !.op = "search", !.body = body,
                                  !.pc = "s_embed",
                                  !.query = body.query[1],
                                  !.topK = effectiveTopK(body),
                                  !.useReranker = (body.rerank # Some(FALSE))]]
    /\ UNCHANGED << hasDB, stores, failures, hist >>

\* line 135: env.AI.run(embedding model, query)
SearchEmbed(s, ok) ==
    /\ rq[s].pc = "s_embed"
    /\ LET r == [rq[s] EXCEPT !.calls = Called(rq[s], "AI.embed")]
       IN  rq' = [rq EXCEPT ![s] = IF ok THEN [r EXCEPT !.pc = "s_vquery"]
                                   ELSE respond(r, searchCatch)]
    /\ failures' = IF ok THEN failures ELSE failures + 1
    /\ UNCHANGED << hasDB, stores, hist >>

\* line 140: env.VECTORIZE.query; then lines 146-149 and
\* KeywordSearchEngine.search lines 91-92
SearchVector(s, ok, order) ==
    /\ rq[s].pc = "s_vquery"
    /\ LET r == [rq[s] EXCEPT !.calls = Called(rq[s], "VECTORIZE.query"),
                              !.vres = vectorQuery(vectors, order, rq[s].topK * 2)]
       IN  rq' = [rq EXCEPT ![s] =
                    IF ~ok THEN respond([r EXCEPT !.vres = << >>], searchCatch)
                    ELSE IF hasDB /\ Len(tokenize(r.query)) > 0
                         THEN [r EXCEPT !.pc = "s_stats"]
                         ELSE afterKeyword(r, << >>)]
    /\ failures' = IF ok THEN failures ELSE failures + 1
    /\ UNCHANGED << hasDB, stores, hist >>

\* lines 94-95: SELECT total_documents, avg_doc_length FROM doc_stats
SearchStats(s, ok) ==
    /\ rq[s].pc = "s_stats"
    /\ LET r == [rq[s] EXCEPT !.calls = Called(rq[s], "DB.select doc_stats"),
                              !.stats = doc_stats]
       IN  rq' = [rq EXCEPT ![s] =
                    IF ~ok THEN respond([r EXCEPT !.stats = NoStats], searchCatch)
                    ELSE IF r.stats.total_documents = 0 THEN afterKeyword(r, << >>)
                    ELSE [r EXCEPT !.pc = "s_join"]]
    /\ failures' = IF ok THEN failures ELSE failures + 1
    /\ UNCHANGED << hasDB, stores, hist >>

\* lines 97-109: the join, the scores, the sort and the cut to topK * 2
SearchJoin(s, ok, rowOrder) ==
    /\ rq[s].pc = "s_join"
    /\ LET r == [rq[s] EXCEPT !.calls = Called(rq[s], "DB.select join")]
           rows == joinRows(documents, keywords, term_stats, tokenize(r.query))
       IN  rq' = [rq EXCEPT ![s] =
                    IF ~ok THEN respond(r, searchCatch)
                    ELSE afterKeyword(r, keywordRank(r.stats, rows, rowOrder, r.topK * 2))]
    /\ failures' = IF ok THEN failures ELSE failures + 1
    /\ UNCHANGED << hasDB, stores, hist >>

\* the reranker gives the last of the results it was sent the score 1 and the
\* others 0, or (best = 0) gives 0 to all, as a response without data does
rerankerScores(best) == [i \in 1..rerankTopN |-> IF i = best THEN 1 ELSE 0]

\* a variant of the catch: the first results are reranked with scores of 0
rerankOutcomeZero(fused, ok, scores) ==
    rerank(fused, IF ok THEN scores ELSE [i \in 1..rerankTopN |-> 0])

\* lines 159-162: `results` after the try block: reranked, or, when the call
\* threw, what it was
rerankOutcome(fused, ok, scores) == IF ok THEN rerank(fused, scores) ELSE fused

\* lines 157-164: env.AI.run(reranker); an error is caught and logged
SearchRerank(s, ok, best) ==
    /\ rq[s].pc = "s_rerank"
    /\ best \in {0, Len(sliceFirst(rq[s].fused, rerankTopN))}
    /\ LET r == [rq[s] EXCEPT !.calls = Called(rq[s], "AI.rerank"),
                              !.rerankFailed = ~ok]
           results == rerankOutcome(r.fused, ok, rerankerScores(best))
       IN  rq' = [rq EXCEPT ![s] = respond(r, searchResponse(r, results))]
    /\ failures' = IF ok THEN failures ELSE failures + 1
    /\ UNCHANGED << hasDB, stores, hist >>

(***************************************************************************)
(* POST /ingest (fetch, lines 425-439) and IngestionEngine.ingest          *)
(***************************************************************************)
\* a JSON number where the Document type has a string
Num(n) == << "number", n >>

\* typeof v === 'string': the field is present and holds a string
isString(v) == Len(v) = 1

\* a variant of the validation with one message for both fields
validateIngestOneMessage(body) ==
    IF body.id = None \/ body.id = Some(<< >>) \/ ~isString(body.id)
         \/ body.content = None \/ body.content = Some(<< >>) \/ ~isString(body.content)
    THEN "Missing or invalid id"
    ELSE ""

\* lines 428-433 (!body.id || typeof body.id !== 'string', and the same for
\* content): the validation error, or ""
validateIngest(body) ==
    IF body.id = None \/ body.id = Some(<< >>) \/ ~isString(body.id)
    THEN "Missing or invalid id"
    ELSE IF body.content = None \/ body.content = Some(<< >>) \/ ~isString(body.content)
         THEN "Missing or invalid content"
    ELSE ""

\* line 437: the catch of the ingest handler
ingestCatch == ErrorResp(500, "Ingest failed")

\* DELETE /documents/:id has no try block: the exception leaves fetch
uncaught == ErrorResp(500, "uncaught exception")

failed(r) == respond(r, IF r.op = "ingest" THEN ingestCatch ELSE uncaught)

\* line 186, and the first turn of the loop of line 190
beginChunks(r) ==
    [r EXCEPT !.chunks = chunk(r.content, r.id), !.k = 1,
              !.pc = IF hasDB THEN "i_insert" ELSE "i_embed"]

\* where delete returns to: line 186 of ingest, or the response of line 448
afterDelete(r) ==
    IF r.op = "ingest" THEN beginChunks(r)
    ELSE respond(r, [NoResp EXCEPT !.status = 200])

IngestStart(s, body) ==
    /\ Free(s)
    /\ LET r == [NoRq EXCEPT !.op = "ingest", !.body = body]
       IN  rq' = [rq EXCEPT ![s] =
                    IF validateIngest(body) # ""
                    THEN respond(r, ErrorResp(400, validateIngest(body)))
                    ELSE LET r1 == [r EXCEPT !.id = body.id[1], !.content = body.content[1]]
                         IN  IF hasDB THEN [r1 EXCEPT !.pc = "i_dedup"]
                             ELSE beginChunks(r1)]
    /\ UNCHANGED << hasDB, stores, failures, hist >>

\* line 182: SELECT id FROM documents WHERE id = ? OR parent_id = ? (.first())
IngestDedup(s, ok) ==
    /\ rq[s].pc = "i_dedup"
    /\ LET r == [rq[s] EXCEPT !.calls = Called(rq[s], "DB.select documents"),
                              !.existing = ok /\ selectIds(documents, rq[s].id) # {}]
       IN  rq' = [rq EXCEPT ![s] =
                    IF ~ok THEN failed(r)
                    ELSE IF r.existing THEN [r EXCEPT !.pc = "d_select"]
                    ELSE beginChunks(r)]
    /\ failures' = IF ok THEN failures ELSE failures + 1
    /\ hist' = IF ok THEN hist ELSE histOf(rq'[s])
    /\ UNCHANGED << hasDB, stores >>

\* line 192: INSERT INTO documents; the primary key rejects a second row
\* with the same id
IngestInsert(s, ok) ==
    /\ rq[s].pc = "i_insert"
    /\ LET r == [rq[s] EXCEPT !.calls = Called(rq[s], "DB.insert documents")]
           c == r.chunks[r.k]
           done == ok /\ c.id \notin {d.id : d \in documents}
       IN  /\ rq' = [rq EXCEPT ![s] = IF done THEN [r EXCEPT !.pc = "i_index"]
                                      ELSE failed(r)]
           /\ documents' = IF done THEN documents \cup {documentRow(c)} ELSE documents
           /\ hist' = IF done THEN NoHist ELSE histOf(rq'[s])
    /\ failures' = IF ok THEN failures ELSE failures + 1
    /\ UNCHANGED << hasDB, keywords, term_stats, doc_stats, vectors >>

\* line 193: indexDocument, one atomic db.batch; the foreign key of keywords
\* rejects the batch when the document row is gone
IngestIndex(s, ok) ==
    /\ rq[s].pc = "i_index"
    /\ LET r == [rq[s] EXCEPT !.calls = Called(rq[s], "DB.batch index")]
           c == r.chunks[r.k]
           tokens == tokenize(c.content)
           tf == termFreq(tokens)
           done == ok /\ (Len(tokens) = 0 \/ c.id \in {d.id : d \in documents})
       IN  /\ rq' = [rq EXCEPT ![s] = IF done THEN [r EXCEPT !.pc = "i_embed"]
                                      ELSE failed(r)]
           /\ keywords' = IF done THEN indexKeywords(keywords, c.id, tf) ELSE keywords
           /\ term_stats' = IF done THEN indexTermStats(term_stats, tf) ELSE term_stats
           /\ doc_stats' = IF done THEN indexDocStats(doc_stats, Len(tokens)) ELSE doc_stats
           /\ hist' = IF done THEN NoHist ELSE histOf(rq'[s])
    /\ failures' = IF ok THEN failures ELSE failures + 1
    /\ UNCHANGED << hasDB, documents, vectors >>

\* lines 195-197: the embedding of the chunk, pushed to `vectors`
IngestEmbed(s, ok) ==
    /\ rq[s].pc = "i_embed"
    /\ LET r == [rq[s] EXCEPT !.calls = Called(rq[s], "AI.embed")]
           c == r.chunks[r.k]
           r1 == [r EXCEPT !.vectors = Append(r.vectors, vectorOf(c))]
       IN  rq' = [rq EXCEPT ![s] =
                    IF ~ok THEN failed(r)
                    ELSE IF r.k < Len(r.chunks)
                         THEN [r1 EXCEPT !.k = r.k + 1,
                                         !.pc = IF hasDB THEN "i_insert" ELSE "i_embed"]
                    ELSE [r1 EXCEPT !.pc = "i_upsert"]]
    /\ failures' = IF ok THEN failures ELSE failures + 1
    /\ hist' = IF ok THEN hist ELSE histOf(rq'[s])
    /\ UNCHANGED << hasDB, stores >>

\* line 201: env.VECTORIZE.upsert(vectors), one call; lines 204 and 435
IngestUpsert(s, ok) ==
    /\ rq[s].pc = "i_upsert"
    /\ LET r == [rq[s] EXCEPT !.calls = Called(rq[s], "VECTORIZE.upsert")]
       IN  rq' = [rq EXCEPT ![s] =
                    IF ~ok THEN failed(r)
                    ELSE respond(r, [NoResp EXCEPT !.status = 200,
                                                   !.chunksCreated = Len(r.chunks)])]
    /\ vectors' = IF ok THEN upsert(vectors, rq[s].vectors) ELSE vectors
    /\ failures' = IF ok THEN failures ELSE failures + 1
    /\ hist' = histOf(rq'[s])
    /\ UNCHANGED << hasDB, documents, keywords, term_stats, doc_stats >>

(***************************************************************************)
(* DELETE /documents/:id (fetch, lines 442-449) and IngestionEngine.delete *)
(***************************************************************************)
DeleteStart(s, docId) ==
    /\ Free(s)
    /\ LET r == [NoRq EXCEPT !.op = "delete", !.body = docId, !.id = docId]
       IN  rq' = [rq EXCEPT ![s] =
                    IF docId = << >> THEN respond(r, ErrorResp(400, "Document ID required"))
                    ELSE IF hasDB THEN [r EXCEPT !.pc = "d_select"]
                    ELSE respond(r, [NoResp EXCEPT !.status = 200])]
    /\ hist' = IF docId = << >> \/ hasDB THEN hist ELSE histOf(rq'[s])
    /\ UNCHANGED << hasDB, stores, failures >>

\* a variant of delete without the test of line 211
hasIdsAlways(ids) == TRUE

\* line 211: if (ids.length)
hasIds(ids) == ids # {}

\* lines 209-211: SELECT id FROM documents WHERE id = ? OR parent_id = ? (.all())
DeleteSelect(s, ok) ==
    /\ rq[s].pc = "d_select"
    /\ LET r == [rq[s] EXCEPT !.calls = Called(rq[s], "DB.select documents"),
                              !.ids = IF ok THEN selectIds(documents, rq[s].id) ELSE {}]
       IN  rq' = [rq EXCEPT ![s] =
                    IF ~ok THEN failed(r)
                    ELSE IF hasIds(r.ids) THEN [r EXCEPT !.pc = "d_vector"]
                    ELSE afterDelete(r)]
    /\ failures' = IF ok THEN failures ELSE failures + 1
    /\ hist' = IF rq'[s].pc = "done" THEN histOf(rq'[s]) ELSE hist
    /\ UNCHANGED << hasDB, stores >>

\* a delete that goes on to line 213 whatever deleteByIds answered
afterVectorDeleteIgnored(r, ok) == [r EXCEPT !.pc = "d_rows"]

\* line 212 is awaited outside any try block: when deleteByIds rejects,
\* delete() rejects and line 213 is not reached
afterVectorDelete(r, ok) == IF ok THEN [r EXCEPT !.pc = "d_rows"] ELSE failed(r)

\* line 212: env.VECTORIZE.deleteByIds(ids)
DeleteVector(s, ok) ==
    /\ rq[s].pc = "d_vector"
    /\ LET r == [rq[s] EXCEPT !.calls = Called(rq[s], "VECTORIZE.deleteByIds")]
       IN  rq' = [rq EXCEPT ![s] = afterVectorDelete(r, ok)]
    /\ vectors' = IF ok THEN deleteByIds(vectors, rq[s].ids) ELSE vectors
    /\ failures' = IF ok THEN failures ELSE failures + 1
    /\ hist' = IF ok THEN NoHist ELSE histOf(rq'[s])
    /\ UNCHANGED << hasDB, documents, keywords, term_stats, doc_stats >>

\* a delete that also takes the deleted rows out of total_documents, and
\* leaves term_stats as it is
DeleteRowsCounted(s, ok) ==
    /\ rq[s].pc = "d_rows"
    /\ LET r == [rq[s] EXCEPT !.calls = Called(rq[s], "DB.delete documents")]
       IN  rq' = [rq EXCEPT ![s] = IF ok THEN afterDelete(r) ELSE failed(r)]
    /\ documents' = IF ok THEN deleteDocuments(documents, rq[s].id) ELSE documents
    /\ keywords' = IF ok THEN cascadeKeywords(keywords, documents') ELSE keywords
    /\ doc_stats' = [doc_stats EXCEPT !.total_documents =
                        IF @ >= Cardinality(documents \ documents')
                        THEN @ - Cardinality(documents \ documents') ELSE 0]
    /\ failures' = IF ok THEN failures ELSE failures + 1
    /\ hist' = IF rq'[s].pc = "done" THEN histOf(rq'[s]) ELSE NoHist
    /\ UNCHANGED << hasDB, term_stats, vectors >>

\* line 213: DELETE FROM documents WHERE id = ? OR parent_id = ?, which
\* cascades to keywords
DeleteRows(s, ok) ==
    /\ rq[s].pc = "d_rows"
    /\ LET r == [rq[s] EXCEPT !.calls = Called(rq[s], "DB.delete documents")]
       IN  rq' = [rq EXCEPT ![s] = IF ok THEN afterDelete(r) ELSE failed(r)]
    /\ documents' = IF ok THEN deleteDocuments(documents, rq[s].id) ELSE documents
    /\ keywords' = IF ok THEN cascadeKeywords(keywords, documents') ELSE keywords
    /\ failures' = IF ok THEN failures ELSE failures + 1
    /\ hist' = IF rq'[s].pc = "done" THEN histOf(rq'[s]) ELSE NoHist
    /\ UNCHANGED << hasDB, term_stats, doc_stats, vectors >>

(***************************************************************************)
(* The requests the model sends                                            *)
(***************************************************************************)
Rep(c, n) == [i \in 1..n |-> c]

\* a paragraph of 257 characters: two of them do not fit in one chunk
Para(word, filler) == word \o << SP >> \o Rep(filler, 253)

\* "The cat sat."  (shorter than minChunkSize: one chunk, by the fallback)
TextShort == << "T", "h", "e", " ", "c", "a", "t", " ", "s", "a", "t", "." >>

\* two paragraphs, two chunks
TextTwo == Para(<< "c", "a", "t" >>, "x") \o << NL, NL >> \o Para(<< "d", "o", "g" >>, "y")

Texts == {TextShort, TextTwo}

\* "a", and "a-chunk-0", which is also the id of the first chunk of "a"
DocIds == { << "a" >>, ChunkId(<< "a" >>, 0) }

\* "a" with every text and "a-chunk-0" with the short one; bodies whose id
\* or content is missing or is a number
IngestBodies ==
    {[id |-> Some(<< "a" >>), content |-> Some(t)] : t \in Texts}
      \cup {[id |-> Some(ChunkId(<< "a" >>, 0)), content |-> Some(TextShort)]}
      \cup {[id |-> None, content |-> Some(TextShort)],
             [id |-> Some(<< "a" >>), content |-> None],
             [id |-> Num(7), content |-> Some(TextShort)],
             [id |-> Some(<< "a" >>), content |-> Num(7)]}

SearchBody(q, k, r) == [query |-> q, topK |-> k, rerank |-> r]

QueryCat == << "c", "a", "t" >>

\* "the": no token survives the tokenizer
QueryThe == << "t", "h", "e" >>

\* the values of topK around the two ends of the range, and 0
TopKs == {Some(-1), Some(0), Some(1), Some(21)}

\* a missing query and an empty one; "cat" with every topK, reranked, and
\* with topK 1 not reranked; "the", with the default topK
SearchBodies ==
    {SearchBody(None, None, None), SearchBody(Some(<< >>), Some(25), None)}
      \cup {SearchBody(Some(QueryCat), k, None) : k \in TopKs}
      \cup {SearchBody(Some(QueryCat), Some(1), Some(FALSE))}
      \cup {SearchBody(Some(QueryThe), None, None)}

\* the ingest of body keeps doc_stats.total_documents within max
Fits(body, max) ==
    validateIngest(body) = "" /\ hasDB =>
        doc_stats.total_documents + Len(chunk(body.content[1], body.id[1])) <= max

\* the response has been sent: the slot is free for the next request
Deliver(s) ==
    /\ rq[s].pc = "done"
    /\ rq' = [rq EXCEPT ![s] = NoRq]
    /\ UNCHANGED << hasDB, stores, failures, hist >>

Init ==
    /\ hasDB \in BOOLEAN
    /\ documents = {}
    /\ keywords = EmptyBag
    /\ term_stats = << >>
    /\ doc_stats = NoStats
    /\ vectors = {}
    /\ rq = [s \in Slots |-> NoRq]
    /\ failures = 0
    /\ hist = NoHist

Next ==
    \/ \E body \in SearchBodies : SearchStart(1, body)
    \/ \E ok \in Outcomes : SearchEmbed(1, ok)
    \/ \E ok \in Outcomes, order \in Orders : SearchVector(1, ok, order)
    \/ \E ok \in Outcomes : SearchStats(1, ok)
    \/ \E ok \in Outcomes, order \in Orders : SearchJoin(1, ok, order)
    \/ \E ok \in Outcomes, best \in 0..rerankTopN : SearchRerank(1, ok, best)
    \/ \E body \in IngestBodies : Free(1) /\ Fits(body, MaxTotal) /\ IngestStart(1, body)
    \/ \E ok \in Outcomes : IngestDedup(1, ok)
    \/ \E ok \in Outcomes : IngestInsert(1, ok)
    \/ \E ok \in Outcomes : IngestIndex(1, ok)
    \/ \E ok \in Outcomes : IngestEmbed(1, ok)
    \/ \E ok \in Outcomes : IngestUpsert(1, ok)
    \/ \E docId \in DocIds \cup {<< >>} : DeleteStart(1, docId)
    \/ \E ok \in Outcomes : DeleteSelect(1, ok)
    \/ \E ok \in Outcomes : DeleteVector(1, ok)
    \/ \E ok \in Outcomes : DeleteRows(1, ok)
    \/ Deliver(1)

Spec == Init /\ [][Next]_vars

(***************************************************************************)
(* A larger corpus: one document of BigParas paragraphs, each its own      *)
(* chunk, searched with a topK above rerankTopN                            *)
(***************************************************************************)
BigParas == 11

\* BigParas paragraphs "cat xxx...", separated by blank lines
TextBig ==
    LET p == Para(<< "c", "a", "t" >>, "x")
    IN  [i \in 1..(BigParas * (Len(p) + 2) - 2) |->
            LET j == (i - 1) % (Len(p) + 2) IN IF j < Len(p) THEN p[j + 1] ELSE NL]

BigIngestBody == [id |-> Some(<< "a" >>), content |-> Some(TextBig)]

BigSearchBodies ==
    {SearchBody(Some(QueryCat), Some(k), r) : k \in {rerankTopN, maxTopK},
                                              r \in {None, Some(FALSE)}}

NextBig ==
    \/ \E body \in BigSearchBodies : SearchStart(1, body)
    \/ \E ok \in Outcomes : SearchEmbed(1, ok)
    \/ \E ok \in Outcomes, order \in Orders : SearchVector(1, ok, order)
    \/ \E ok \in Outcomes : SearchStats(1, ok)
    \/ \E ok \in Outcomes, order \in Orders : SearchJoin(1, ok, order)
    \/ \E ok \in Outcomes, best \in 0..rerankTopN : SearchRerank(1, ok, best)
    \/ Free(1) /\ Fits(BigIngestBody, BigParas) /\ IngestStart(1, BigIngestBody)
    \/ \E ok \in Outcomes : IngestDedup(1, ok)
    \/ \E ok \in Outcomes : IngestInsert(1, ok)
    \/ \E ok \in Outcomes : IngestIndex(1, ok)
    \/ \E ok \in Outcomes : IngestEmbed(1, ok)
    \/ \E ok \in Outcomes : IngestUpsert(1, ok)
    \/ Deliver(1)

SpecBig == Init /\ [][NextBig]_vars

(***************************************************************************)
(* The pure functions, each applied once to an input drawn from a bounded  *)
(* set: chunk to a text, reciprocalRankFusion to two result lists, and the *)
(* BM25 term of keyword search to one joined row. The input and the result *)
(* are held in the fields of rq[1].                                        *)
(***************************************************************************)
\* the largest number of paragraphs of a text
(***************************************************************************)
(* Two requests at a time: the worker handles a write (ingest, delete) in  *)
(* slot 1 while a search runs in slot 2. The awaits of the two handlers    *)
(* interleave freely.                                                      *)
(***************************************************************************)
ConcIngestBody == [id |-> Some(<< "a" >>), content |-> Some(TextTwo)]

ConcSearchBody == SearchBody(Some(QueryCat), None, Some(FALSE))

InitConc ==
    /\ hasDB = TRUE
    /\ documents = {}
    /\ keywords = EmptyBag
    /\ term_stats = << >>
    /\ doc_stats = NoStats
    /\ vectors = {}
    /\ rq = [s \in {1, 2} |-> NoRq]
    /\ failures = 0
    /\ hist = NoHist

NextConc ==
    \/ Free(1) /\ Fits(ConcIngestBody, MaxTotal) /\ IngestStart(1, ConcIngestBody)
    \/ \E ok \in Outcomes : IngestDedup(1, ok)
    \/ \E ok \in Outcomes : IngestInsert(1, ok)
    \/ \E ok \in Outcomes : IngestIndex(1, ok)
    \/ \E ok \in Outcomes : IngestEmbed(1, ok)
    \/ \E ok \in Outcomes : IngestUpsert(1, ok)
    \/ DeleteStart(1, << "a" >>)
    \/ \E ok \in Outcomes : DeleteSelect(1, ok)
    \/ \E ok \in Outcomes : DeleteVector(1, ok)
    \/ \E ok \in Outcomes : DeleteRows(1, ok)
    \/ SearchStart(2, ConcSearchBody)
    \/ \E ok \in Outcomes : SearchEmbed(2, ok)
    \/ \E ok \in Outcomes, order \in Orders : SearchVector(2, ok, order)
    \/ \E ok \in Outcomes : SearchStats(2, ok)
    \/ \E ok \in Outcomes, order \in Orders : SearchJoin(2, ok, order)
    \/ \E s \in {1, 2} : Deliver(s)

SpecConc == InitConc /\ [][NextConc]_vars

(***************************************************************************)
(* Two ingest requests for the same document id, with different content,   *)
(* handled at the same time: the awaits of the two interleave freely.      *)
(***************************************************************************)
\* "A dog ran."
TextDog == << "A", " ", "d", "o", "g", " ", "r", "a", "n", "." >>

RaceBody ==
    [s \in {1, 2} |->
        [id |-> Some(<< "a" >>), content |-> Some(IF s = 1 THEN TextShort ELSE TextDog)]]

\* the number of chunks of each of the two bodies
RaceChunks ==
    [s \in {1, 2} |-> Len(chunk(RaceBody[s].content[1], RaceBody[s].id[1]))]

NextRace ==
    \/ \E s \in {1, 2} :
          /\ Free(s)
          /\ doc_stats.total_documents + RaceChunks[s] <= MaxTotal
          /\ IngestStart(s, RaceBody[s])
    \/ \E s \in {1, 2}, ok \in Outcomes : IngestDedup(s, ok)
    \/ \E s \in {1, 2}, ok \in Outcomes : IngestInsert(s, ok)
    \/ \E s \in {1, 2}, ok \in Outcomes : IngestIndex(s, ok)
    \/ \E s \in {1, 2}, ok \in Outcomes : IngestEmbed(s, ok)
    \/ \E s \in {1, 2}, ok \in Outcomes : IngestUpsert(s, ok)
    \/ \E s \in {1, 2}, ok \in Outcomes : DeleteSelect(s, ok)
    \/ \E s \in {1, 2}, ok \in Outcomes : DeleteVector(s, ok)
    \/ \E s \in {1, 2}, ok \in Outcomes : DeleteRows(s, ok)
    \/ \E s \in {1, 2} : Deliver(s)

SpecRace == InitConc /\ [][NextRace]_vars

MaxParas == 3

\* paragraph lengths around minChunkSize, the fit of two paragraphs in
\* maxChunkSize, and maxChunkSize itself
ParaLens == {1, 20, 99, 100, 257, 513}

\* the letter each paragraph of a text is made of, by the number of
\* paragraphs from it to the end of the text
ParaLetters == << "x", "y", "z", "w", "v", "u" >>

\* paragraphs "xx...x", "yy...y", ... of the given lengths, each of its own
\* letter, separated by blank lines
RECURSIVE JoinParas(_)
JoinParas(lens) ==
    IF Len(lens) = 0 THEN << >>
    ELSE IF Len(lens) = 1 THEN Rep(ParaLetters[1], lens[1])
    ELSE Rep(ParaLetters[Len(lens)], lens[1]) \o << NL, NL >> \o JoinParas(Tail(lens))

\* texts of up to MaxParas paragraphs; blank text; and a text with spaces
\* around it and paragraphs separated by more than one blank line
ChunkTexts ==
    {JoinParas(lens) : lens \in UNION {[1..n -> ParaLens] : n \in 0..MaxParas}}
      \cup {<< SP, NL, NL, SP >>,
             << SP >> \o Rep("x", 60) \o << NL, NL, NL, NL, NL >> \o Rep("y", 30) \o << NL >>}

\* the ids of the results that are fused
FuseIds == {ChunkId(<< "a" >>, k) : k \in 0..2}

\* the duplicate-free lists of ids
FuseLists ==
    {l \in UNION {[1..n -> FuseIds] : n \in 0..Cardinality(FuseIds)} :
        \A i, j \in DOMAIN l : i # j => l[i] # l[j]}

\* SearchResult[] for a list of ids, with scores that fall along the list
ResultsOf(l, source) ==
    [i \in DOMAIN l |-> [id |-> l[i], content |-> << "c" >>, score |-> 1000 - i,
                          source |-> source]]

\* the largest total_documents of a scored row
MaxN == 5

\* joined rows and corpus statistics: N, df <= N, tf, the length of the
\* chunk in characters, and a positive average length in tokens
ScoreInputs ==
    {[stats |-> [total_documents |-> n, avg_doc_length |-> avg],
      row |-> [term_frequency |-> tf, doc_length |-> dl, document_frequency |-> df]] :
        n \in 1..MaxN, df \in 1..MaxN, tf \in 1..3, dl \in {12, 257, 512},
        avg \in {Rat(1, 1), Rat(5, 2), Rat(40, 1)}}

PureInputs ==
    {[NoRq EXCEPT !.op = "chunk", !.id = d, !.content = t] :
        d \in DocIds, t \in ChunkTexts}
      \cup {[NoRq EXCEPT !.op = "fuse", !.vres = ResultsOf(v, "vector"),
                          !.kres = ResultsOf(k, "keyword")] :
                v \in FuseLists, k \in FuseLists}
      \cup {[NoRq EXCEPT !.op = "score", !.stats = x.stats, !.body = x.row] :
                x \in {y \in ScoreInputs :
                          y.row.document_frequency <= y.stats.total_documents}}

\* line 186: this.chunker.chunk(doc.content, doc.id)
ChunkApply(s) ==
    /\ rq[s].op = "chunk" /\ rq[s].pc = "idle"
    /\ rq' = [rq EXCEPT ![s] = [rq[s] EXCEPT !.chunks = chunk(rq[s].content, rq[s].id),
                                             !.pc = "done"]]
    /\ UNCHANGED << hasDB, stores, failures, hist >>

\* line 154: this.reciprocalRankFusion(vectorSearchResults, keywordResults)
FuseApply(s) ==
    /\ rq[s].op = "fuse" /\ rq[s].pc = "idle"
    /\ rq' = [rq EXCEPT ![s] =
                [rq[s] EXCEPT !.fused = reciprocalRankFusion(rq[s].vres, rq[s].kres),
                              !.pc = "done"]]
    /\ UNCHANGED << hasDB, stores, failures, hist >>

\* lines 103-105: idf * tf of one row of the join, left in k (millionths)
ScoreApply(s) ==
    /\ rq[s].op = "score" /\ rq[s].pc = "idle"
    /\ rq' = [rq EXCEPT ![s] = [rq[s] EXCEPT !.k = bm25Term(rq[s].stats, rq[s].body),
                                             !.pc = "done"]]
    /\ UNCHANGED << hasDB, stores, failures, hist >>

InitPure ==
    /\ hasDB = TRUE
    /\ documents = {}
    /\ keywords = EmptyBag
    /\ term_stats = << >>
    /\ doc_stats = NoStats
    /\ vectors = {}
    /\ rq \in {[s \in Slots |-> r] : r \in PureInputs}
    /\ failures = 0
    /\ hist = NoHist

NextPure ==
    \/ ChunkApply(1)
    \/ FuseApply(1)
    \/ ScoreApply(1)

SpecPure == InitPure /\ [][NextPure]_vars

(***************************************************************************)
(* Properties                                                              *)
(***************************************************************************)
\* id is the id of a chunk of document d
IsChunkOf(id, d) ==
    Len(id) = Len(d) + 2 /\ SubSeq(id, 1, Len(d)) = d /\ id[Len(d) + 1] = "-chunk-"

\* id is d or the id of a chunk of d
BelongsTo(id, d) == id = d \/ IsChunkOf(id, d)

\* slot s holds a search request whose query is usable
SearchWithQuery(s) ==
    rq[s].op = "search" /\ rq[s].body.query # None /\ rq[s].body.query # Some(<< >>)

\* slot s holds the response of a search
SearchDone(s) == rq[s].op = "search" /\ rq[s].pc = "done"

\* C8: a search whose query is missing or the empty string is answered 400
\* "Missing 'query' field in request body", and no embedding, vector, lexical
\* or reranker call is made for it.
C8_MissingQueryRejected ==
    \A s \in Slots :
        rq[s].op = "search" /\ rq[s].body.query \in {None, Some(<< >>)} =>
            /\ rq[s].pc = "done"
            /\ rq[s].resp.status = 400
            /\ rq[s].resp.error = "Missing 'query' field in request body"
            /\ rq[s].resp.results = << >>
            /\ rq[s].calls = << >>

\* an empty query was answered while the stores held documents to search
C8_Witness ==
    \E s \in Slots :
        /\ SearchDone(s) /\ rq[s].body.query = Some(<< >>)
        /\ rq[s].resp.status = 400
        /\ vectors # {} /\ documents # {}

\* C9: a search with a usable query and a topK above 20 or below 0 is answered
\* 400 "topK must be between 1 and 20" before any collaborator is called.
C9_TopKOutOfRangeRejected ==
    \A s \in Slots :
        SearchWithQuery(s) /\ rq[s].body.topK # None
          /\ (rq[s].body.topK[1] > 20 \/ rq[s].body.topK[1] < 0) =>
            /\ rq[s].pc = "done"
            /\ rq[s].resp.status = 400
            /\ rq[s].resp.error = "topK must be between 1 and 20"
            /\ rq[s].resp.results = << >>
            /\ rq[s].calls = << >>

\* topK = 21, the first value above the range, was rejected with documents
\* in the stores
C9_Witness ==
    \E s \in Slots :
        /\ SearchDone(s) /\ SearchWithQuery(s) /\ rq[s].body.topK = Some(21)
        /\ rq[s].resp.status = 400
        /\ vectors # {}

\* C10: topK = 0 is rejected like the other values outside 1..20, so that a
\* search that is executed runs with exactly the topK the caller supplied.
C10_TopKZeroRejected ==
    \A s \in Slots :
        SearchWithQuery(s) /\ rq[s].body.topK # None =>
            /\ rq[s].body.topK = Some(0) =>
                    rq[s].pc = "done" /\ rq[s].resp.status = 400 /\ rq[s].calls = << >>
            /\ rq[s].calls # << >> => rq[s].topK = rq[s].body.topK[1]

\* C5: when the reranker call fails, the search succeeds and its results are
\* the fused ranking cut to topK: same ids, order and fused scores, and no
\* reranker score.
C5_RerankFailureKeepsFused ==
    \A s \in Slots :
        SearchDone(s) /\ rq[s].rerankFailed =>
            LET expected == sliceFirst(reciprocalRankFusion(rq[s].vres, rq[s].kres),
                                       rq[s].topK)
            IN  /\ rq[s].resp.status = 200
                /\ rq[s].resp.results = expected
                /\ \A i \in DOMAIN rq[s].resp.results :
                        rq[s].resp.results[i].rerankerScore = None

\* the reranker failed on a fused ranking of several results, one of them
\* found by both searches
C5_Witness ==
    \E s \in Slots :
        /\ SearchDone(s) /\ rq[s].rerankFailed
        /\ Len(rq[s].resp.results) >= 2
        /\ \E i \in DOMAIN rq[s].resp.results :
                /\ rq[s].resp.results[i].vectorScore # None
                /\ rq[s].resp.results[i].keywordScore # None

\* the chunks that chunking content c under id d produces
chunksOf(d, c) == LET cs == chunk(c, d) IN {cs[i] : i \in DOMAIN cs}

\* the postings that indexing a chunk inserts
postingsOf(c) ==
    LET tf == termFreq(tokenize(c.content))
    IN  {[document_id |-> c.id, term |-> t, term_frequency |-> tf[t]] : t \in DOMAIN tf}

\* the last request to end was a successful one, and nothing has been written since
Last(op) == hist.op = op /\ hist.ok

\* C1: with the lexical store configured and no failure, after ingest(d, c2)
\* succeeds over an earlier ingest of d, the rows, postings and vector entries
\* of d are exactly those of the chunks of c2, and a search returns no chunk
\* of d with other content.
C1_ReingestReplaces ==
    hasDB /\ failures = 0 /\ Last("ingest") =>
        LET d == hist.id
            cs == chunksOf(d, hist.content)
        IN  /\ {r \in documents : r.parent_id = d \/ IsChunkOf(r.id, d)}
                  = {documentRow(c) : c \in cs}
            /\ {v \in vectors : v.parentId = d \/ IsChunkOf(v.id, d)}
                  = {vectorOf(c) : c \in cs}
            /\ {k \in DOMAIN keywords : IsChunkOf(k.document_id, d)}
                  = UNION {postingsOf(c) : c \in cs}
            /\ \A k \in DOMAIN keywords : IsChunkOf(k.document_id, d) => keywords[k] = 1
            /\ \A s \in Slots : SearchDone(s) =>
                  \A i \in DOMAIN rq[s].resp.results :
                      LET res == rq[s].resp.results[i]
                      IN  IsChunkOf(res.id, d) =>
                              \E c \in cs : c.id = res.id /\ c.content = res.content

\* d was ingested over an earlier ingest of d that had more chunks, and a
\* search has returned a chunk of d since
C1_Witness ==
    /\ hasDB /\ failures = 0 /\ Last("ingest")
    /\ Cardinality(hist.ids) > Cardinality(chunksOf(hist.id, hist.content))
    /\ \E s \in Slots :
          /\ SearchDone(s)
          /\ \E i \in DOMAIN rq[s].resp.results :
                /\ IsChunkOf(rq[s].resp.results[i].id, hist.id)
                /\ rq[s].resp.results[i].keywordScore # None

\* no chunk whose id is d or whose parent is d is in documents, in the
\* postings or in the vector index
Absent(d) ==
    /\ \A r \in documents : r.id # d /\ r.parent_id # d /\ ~IsChunkOf(r.id, d)
    /\ \A k \in DOMAIN keywords : ~BelongsTo(k.document_id, d)
    /\ \A v \in vectors : v.id # d /\ v.parentId # d /\ ~IsChunkOf(v.id, d)

\* slot s handles an ingest that writes chunks with id d or parent d: the
\* ingest of d, or of the document that has a chunk with id d
Reingests(s, d) == rq[s].op = "ingest" /\ (rq[s].id = d \/ IsChunkOf(d, rq[s].id))

\* C2: with the lexical store configured, after delete(d) succeeds no chunk
\* whose id is d or whose parent is d is left in the documents, in the postings
\* or in the vector index; none comes back before an ingest writes it again;
\* and while there is none, no search returns such a chunk id.
C2_DeleteRemovesAll ==
    /\ [](hasDB /\ Last("delete") => Absent(hist.id))
    /\ [](\A d \in DocIds, s \in Slots :
              Absent(d) /\ SearchDone(s) =>
                  \A i \in DOMAIN rq[s].resp.results :
                      ~BelongsTo(rq[s].resp.results[i].id, d))
    /\ [][\A d \in DocIds :
              Absent(d) /\ (\A s \in Slots : ~Reingests(s, d)) => Absent(d)']_vars

\* a delete removed the chunks of d and a search has since returned the
\* chunks of another document
C2_Witness ==
    /\ hasDB /\ Last("delete") /\ hist.ids # {}
    /\ \E s \in Slots : SearchDone(s) /\ Len(rq[s].resp.results) > 0

\* C3: with the lexical store configured, from empty stores and with every
\* request run to successful completion, whenever no request is in flight the
\* ids in documents are the ids in the vector index.
C3_StoresAgree ==
    hasDB /\ failures = 0 /\ Quiescent =>
        {r.id : r \in documents} = {v.id : v \in vectors}

\* after an ingest of two chunks and a delete that removed rows, documents
\* remain
C3_Witness ==
    /\ hasDB /\ failures = 0 /\ Quiescent
    /\ Last("delete") /\ hist.ids # {}
    /\ Cardinality(documents) >= 1

\* C4: ingestion is all-or-nothing: when a step of ingest(d) fails, then once
\* the request has ended either every chunk of d is in both stores or none is
\* in either.
C4_IngestAllOrNothing ==
    hasDB /\ hist.op = "ingest" /\ ~hist.ok =>
        LET d == hist.id
            cs == chunksOf(d, hist.content)
            rows == {r \in documents : r.parent_id = d}
            vecs == {v \in vectors : v.parentId = d}
        IN  \/ rows = {} /\ vecs = {}
            \/ rows = {documentRow(c) : c \in cs} /\ vecs = {vectorOf(c) : c \in cs}

\* slot s takes the step of a delete request that reads the rows of its
\* document, and the read succeeds
DeleteReads(s) ==
    /\ rq[s].op = "delete" /\ rq[s].pc = "d_select"
    /\ rq'[s].calls = Append(rq[s].calls, "DB.select documents")
    /\ failures' = failures

\* no row of documents has id d or parent d
NoRows(d) == \A r \in documents : r.id # d /\ r.parent_id # d

\* C7: delete is idempotent: a delete(d) that finds no rows for d ends without
\* error, changes nothing and makes no vector-delete call; so delete(d) twice
\* leaves what delete(d) once leaves.
C7_DeleteIdempotent ==
    [][\A s \in Slots :
          /\ DeleteReads(s) /\ NoRows(rq[s].id) =>
                /\ rq'[s].pc = "done"
                /\ rq'[s].resp.status = 200
                /\ rq'[s].calls = << "DB.select documents" >>
                /\ stores' = stores
          /\ DeleteReads(s) /\ Last("delete") /\ hist.id = rq[s].id =>
                /\ NoRows(rq[s].id)
                /\ stores' = stores
                /\ Last("delete")' /\ hist'.id = hist.id
      ]_vars

\* delete(d) ended a second time in a row, with nothing to remove, while the
\* stores held another document
C7_Witness ==
    /\ hasDB /\ Last("delete") /\ hist.repeat /\ hist.ids = {}
    /\ documents # {} /\ vectors # {}
    /\ \E s \in Slots : rq[s].op = "delete" /\ rq[s].pc = "done"
                          /\ rq[s].resp.status = 200

\* the tokens of a text, as a set
tokenSet(text) == Range(tokenize(text))

\* the chunks that the search of slot s had as candidates
candidates(s) ==
    {rq[s].vres[i].id : i \in DOMAIN rq[s].vres} \cup {rq[s].kres[i].id : i \in DOMAIN rq[s].kres}

\* C6: read-after-write: with the lexical store configured, once ingest(d) has
\* succeeded, the next search whose query shares a token with a chunk of d,
\* and which has at most topK candidates, returns that chunk with a keyword
\* score above zero.
C6_ReadAfterWrite ==
    \A s \in Slots :
        hasDB /\ failures = 0 /\ Last("ingest") /\ SearchDone(s) /\ SearchWithQuery(s)
          /\ rq[s].calls # << >> /\ Cardinality(candidates(s)) <= rq[s].topK =>
            \A c \in chunksOf(hist.id, hist.content) :
                tokenSet(c.content) \cap tokenSet(rq[s].query) # {} =>
                    /\ rq[s].resp.status = 200
                    /\ \E i \in DOMAIN rq[s].resp.results :
                          /\ rq[s].resp.results[i].id = c.id
                          /\ rq[s].resp.results[i].keywordScore # None
                          /\ rq[s].resp.results[i].keywordScore[1] > 0

\* slot s holds an ingest request
IngestOf(s) == rq[s].op = "ingest"

\* C11: an ingest whose id is missing or not a string, or whose content is
\* missing or not a string, is answered 400 "Missing or invalid id" /
\* "Missing or invalid content" with no dedup lookup, insert, embedding or
\* upsert, and the step that answers it leaves every store unchanged.
C11_InvalidIngestRejected ==
    /\ [](\A s \in Slots :
            IngestOf(s) /\ (Len(rq[s].body.id) # 1 \/ Len(rq[s].body.content) # 1) =>
                /\ rq[s].pc = "done"
                /\ rq[s].resp.status = 400
                /\ rq[s].resp.chunksCreated = 0
                /\ rq[s].calls = << >>
                /\ Len(rq[s].body.id) # 1 => rq[s].resp.error = "Missing or invalid id"
                /\ Len(rq[s].body.id) = 1 /\ rq[s].body.id # Some(<< >>) =>
                        rq[s].resp.error = "Missing or invalid content")
    /\ [][\A s \in Slots :
            IngestOf(s)' /\ rq[s] # rq'[s]
              /\ (Len(rq'[s].body.id) # 1 \/ Len(rq'[s].body.content) # 1) =>
                stores' = stores]_vars

\* an ingest with a number as content was rejected while the stores held a
\* document
C11_Witness ==
    \E s \in Slots :
        /\ IngestOf(s) /\ rq[s].pc = "done"
        /\ rq[s].body.content = Num(7)
        /\ rq[s].resp.error = "Missing or invalid content"
        /\ documents # {} /\ vectors # {}

\* the body of the search in slot s is valid: a usable query, and a topK that
\* is absent or within 1..20
ValidSearch(s) ==
    /\ SearchWithQuery(s)
    /\ rq[s].body.topK = None \/ (rq[s].body.topK[1] >= 1 /\ rq[s].body.topK[1] <= 20)

\* the vector index is empty and no chunk has been indexed
EmptyStores == vectors = {} /\ doc_stats.total_documents = 0

\* C12: with no chunk indexed (total_documents = 0) and an empty vector index,
\* a valid search, reranking enabled or not, succeeds with an empty result
\* list, is not answered as an error, and does not call the reranker.
C12_EmptyStoresEmptyResults ==
    \A s \in Slots :
        ValidSearch(s) /\ EmptyStores /\ failures = 0 =>
            /\ rq[s].pc # "s_rerank"
            /\ "AI.rerank" \notin Range(rq[s].calls)
            /\ rq[s].pc = "done" =>
                  /\ rq[s].resp.status = 200
                  /\ rq[s].resp.error = ""
                  /\ rq[s].resp.results = << >>

\* a search with reranking enabled has read the empty corpus statistics and
\* was answered
C12_Witness ==
    \E s \in Slots :
        /\ SearchDone(s) /\ ValidSearch(s) /\ EmptyStores /\ failures = 0
        /\ rq[s].body.rerank = None /\ rq[s].body.topK = Some(1)
        /\ "DB.select doc_stats" \in Range(rq[s].calls)
        /\ rq[s].resp.status = 200

\* slot s takes a step of a search in which the embedding call, the vector
\* query or a D1 query fails
SearchCallFails(s) ==
    /\ rq[s].op = "search"
    /\ rq[s].pc \in {"s_embed", "s_vquery", "s_stats", "s_join"}
    /\ failures' = failures + 1

\* C13: when the embedding provider, the vector index or the relational store
\* fails during a search, the call is not retried and the request ends in a
\* failure that is not reported as a validation error or a malformed request.
C13_SearchFailureDistinguishable ==
    [][\A s \in Slots :
          SearchCallFails(s) =>
              /\ rq'[s].pc = "done"
              /\ Len(rq'[s].calls) = Len(rq[s].calls) + 1
              /\ rq'[s].resp.status \notin {200, 400}
              /\ rq'[s].resp.error \notin {"Invalid JSON in request body",
                                           "Missing 'query' field in request body",
                                           "topK must be between 1 and 20"}
      ]_vars

\* slot s holds the result of chunk(text, documentId)
Chunked(s) == rq[s].op = "chunk" /\ rq[s].pc = "done"

\* no buffer of the text qualifies for emission: the loop emits nothing and
\* the last buffer, trimmed, is shorter than minChunkSize
NoBufferQualifies(text, documentId) ==
    LET exit == chunkLoop(paragraphsOf(text), 1, << >>, 0, << >>, documentId)
    IN  exit.chunks = << >> /\ Len(trim(exit.currentChunk)) < minChunkSize

\* C14: chunk(text, documentId) never returns an empty sequence; when no
\* buffer qualifies for emission it returns exactly one chunk, of index 0,
\* whose content is the whole trimmed text.
C14_ChunkNonEmpty ==
    \A s \in DOMAIN rq :
        Chunked(s) =>
            /\ Len(rq[s].chunks) >= 1
            /\ NoBufferQualifies(rq[s].content, rq[s].id) =>
                  /\ Len(rq[s].chunks) = 1
                  /\ rq[s].chunks[1].chunkIndex = 0
                  /\ rq[s].chunks[1].content = trim(rq[s].content)
                  /\ rq[s].chunks[1].id = rq[s].id \o << "-chunk-", 0 >>
                  /\ rq[s].chunks[1].parentId = rq[s].id

\* a text of two short paragraphs with spaces around it was chunked by the
\* fallback
C14_Witness ==
    \E s \in DOMAIN rq :
        /\ Chunked(s)
        /\ NoBufferQualifies(rq[s].content, rq[s].id)
        /\ Len(paragraphsOf(rq[s].content)) = 2
        /\ Len(trim(rq[s].content)) < Len(rq[s].content)
        /\ Len(rq[s].chunks) = 1

\* C15: the chunks of chunk(text, documentId) are numbered 0, 1, ..., n-1 in
\* their order, the id of each is documentId-chunk-<its index>, and the
\* parentId of each is documentId.
C15_ChunkIndexContiguous ==
    \A s \in DOMAIN rq :
        Chunked(s) =>
            \A i \in DOMAIN rq[s].chunks :
                /\ rq[s].chunks[i].chunkIndex = i - 1
                /\ rq[s].chunks[i].id = rq[s].id \o << "-chunk-", i - 1 >>
                /\ rq[s].chunks[i].parentId = rq[s].id

\* a text was cut into three chunks or more
C15_Witness ==
    \E s \in DOMAIN rq : Chunked(s) /\ Len(rq[s].chunks) >= 3

\* slot s holds the result of reciprocalRankFusion(vres, kres)
Fused(s) == rq[s].op = "fuse" /\ rq[s].pc = "done"

\* the fused results with the given id
fusedOf(s, id) == {p \in DOMAIN rq[s].fused : rq[s].fused[p].id = id}

\* id is given exactly one fused result, and its score is the fraction q
ScoredAs(s, id, q) ==
    /\ Cardinality(fusedOf(s, id)) = 1
    /\ \A p \in fusedOf(s, id) : RatEq(rq[s].fused[p].rrfScore, q)

\* C16: with duplicate-free lists, a chunk at 0-based rank i of the vector
\* list and rank j of the keyword list is fused with the score
\* 1/(61+i) + 1/(61+j), and a chunk of one list only, at rank i, with 1/(61+i).
C16_FusionScores ==
    \A s \in DOMAIN rq :
        Fused(s) =>
            LET v == rq[s].vres
                k == rq[s].kres
                inV(id) == \E i \in DOMAIN v : v[i].id = id
                inK(id) == \E j \in DOMAIN k : k[j].id = id
            IN  /\ \A i \in DOMAIN v, j \in DOMAIN k :
                      v[i].id = k[j].id =>
                          ScoredAs(s, v[i].id,
                                   RatAdd(Rat(1, 61 + (i - 1)), Rat(1, 61 + (j - 1))))
                /\ \A i \in DOMAIN v :
                      ~inK(v[i].id) => ScoredAs(s, v[i].id, Rat(1, 61 + (i - 1)))
                /\ \A j \in DOMAIN k :
                      ~inV(k[j].id) => ScoredAs(s, k[j].id, Rat(1, 61 + (j - 1)))

\* fused lists where a chunk is in both at different ranks, one is only in
\* the vector list and one only in the keyword list
C16_Witness ==
    \E s \in DOMAIN rq :
        /\ Fused(s)
        /\ \E i \in DOMAIN rq[s].vres, j \in DOMAIN rq[s].kres :
              i # j /\ rq[s].vres[i].id = rq[s].kres[j].id
        /\ \E i \in DOMAIN rq[s].vres :
              \A j \in DOMAIN rq[s].kres : rq[s].vres[i].id # rq[s].kres[j].id
        /\ \E j \in DOMAIN rq[s].kres :
              \A i \in DOMAIN rq[s].vres : rq[s].vres[i].id # rq[s].kres[j].id

\* slot s holds idf * tf of the row body under the statistics stats
Scored(s) == rq[s].op = "score" /\ rq[s].pc = "done"

\* C17: with chunk length, average length, N and df fixed, idf * tf does not
\* fall when the term frequency rises; with tf, chunk length, average length
\* and N fixed, it falls strictly when df rises within 1..N.
C17_Bm25Monotone ==
    \A s \in DOMAIN rq :
        Scored(s) =>
            LET r == rq[s].body
                st == rq[s].stats
            IN  /\ rq[s].k <= bm25Term(st, [r EXCEPT !.term_frequency = @ + 1])
                /\ r.document_frequency + 1 <= st.total_documents =>
                      bm25Term(st, [r EXCEPT !.document_frequency = @ + 1]) < rq[s].k

\* a row of a term that is in more than half of the chunks, but not in all,
\* was scored
C17_Witness ==
    \E s \in DOMAIN rq :
        /\ Scored(s)
        /\ 2 * rq[s].body.document_frequency > rq[s].stats.total_documents
        /\ rq[s].body.document_frequency < rq[s].stats.total_documents
        /\ rq[s].body.term_frequency > 1
        /\ rq[s].k > 0

\* the posting rows of the table
postingRows(kw) == BagToSet(kw)

\* the posting rows that a step writes
AddedRows == {row \in postingRows(keywords') :
                 CopiesIn(row, keywords') > CopiesIn(row, keywords)}

RECURSIVE SumTf(_)
SumTf(rows) ==
    IF rows = {} THEN 0
    ELSE LET row == CHOOSE x \in rows : TRUE
         IN  row.term_frequency + SumTf(rows \ {row})

\* the statistics account for the postings that are written: the chunks with
\* postings are counted in total_documents, the rows of a term in its
\* document frequency, and the tokens in the average
StatsCoverPostings ==
    /\ Cardinality({row.document_id : row \in postingRows(keywords)})
          <= doc_stats.total_documents
    /\ \A t \in {row.term : row \in postingRows(keywords)} :
          /\ t \in DOMAIN term_stats
          /\ Cardinality({row.document_id : row \in {x \in postingRows(keywords) : x.term = t}})
                <= term_stats[t]
    /\ keywords # EmptyBag => doc_stats.avg_doc_length.n > 0

\* C18: the postings of a chunk, the document frequencies of its terms and
\* the corpus statistics (total_documents + 1, the new running average) are
\* written in one step: in every state, also while a search runs between the
\* awaits of an ingest and after a failed batch, the statistics account for
\* the postings written; a step that writes postings writes them for one
\* chunk together with its statistics, and a failed batch writes nothing.
C18_IndexAtomic ==
    /\ []StatsCoverPostings
    /\ [][/\ AddedRows # {} =>
               /\ Cardinality({row.document_id : row \in AddedRows}) = 1
               /\ doc_stats'.total_documents = doc_stats.total_documents + 1
               /\ RatEq(doc_stats'.avg_doc_length,
                        Rat(doc_stats.avg_doc_length.n * doc_stats.total_documents
                              + SumTf(AddedRows) * doc_stats.avg_doc_length.d,
                            doc_stats.avg_doc_length.d * (doc_stats.total_documents + 1)))
               /\ \A row \in AddedRows :
                     term_stats'[row.term] =
                        (IF row.term \in DOMAIN term_stats THEN term_stats[row.term] ELSE 0) + 1
          /\ \A s \in DOMAIN rq :
                rq[s].pc = "i_index" /\ rq'[s].pc = "done" =>
                    UNCHANGED << keywords, term_stats, doc_stats >>]_vars

\* a search is about to read the statistics or the join while an ingest has
\* indexed its first chunk and not yet its second
C18_Witness ==
    /\ rq[2].op = "search" /\ rq[2].pc \in {"s_stats", "s_join"}
    /\ rq[1].op = "ingest" /\ rq[1].pc \in {"i_insert", "i_index"} /\ rq[1].k = 2
    /\ keywords # EmptyBag

\* C19: after completed ingest and delete requests, none of which met a
\* failure, total_documents (the N of BM25) is the number of rows of the
\* documents table.
C19_TotalDocumentsIsRowCount ==
    hasDB /\ Quiescent /\ failures = 0 =>
        doc_stats.total_documents = Cardinality(documents)

\* the ids of the document rows that a step deletes
DeletedIds == {d.id : d \in documents \ documents'}

\* C20: delete(d) calls the vector-index deletion of the matching ids before
\* it deletes the document rows; when the vector-index deletion fails, no
\* document row and no posting is deleted, the lexical store is as it was,
\* and the request ends with the error.
C20_VectorDeleteFirst ==
    [][\A s \in Slots :
          /\ rq[s].pc = "d_rows" =>
                /\ rq[s].calls[Len(rq[s].calls)] = "VECTORIZE.deleteByIds"
                /\ DeletedIds \subseteq rq[s].ids
                /\ DeletedIds \cap {v.id : v \in vectors} = {}
          /\ DeletedIds # {} => rq[s].pc = "d_rows"
          /\ rq[s].pc = "d_vector" /\ failures' > failures =>
                /\ UNCHANGED << documents, keywords, term_stats, doc_stats >>
                /\ rq'[s].pc = "done"
                /\ rq'[s].resp.status >= 500
                /\ "DB.delete documents" \notin Range(rq'[s].calls)]_vars

\* a DELETE request has ended with the error of the vector-index deletion,
\* and the rows of its document are still there
C20_Witness ==
    \E s \in Slots :
        /\ rq[s].op = "delete" /\ rq[s].pc = "done"
        /\ rq[s].resp.status >= 500
        /\ rq[s].calls # << >>
        /\ rq[s].calls[Len(rq[s].calls)] = "VECTORIZE.deleteByIds"
        /\ rq[s].ids # {}
        /\ rq[s].ids \subseteq {d.id : d \in documents}

\* C21: the list that the keyword search returns for the store, the query
\* and topK at hand is the same for every order in which the store returns
\* the joined rows.
C21_KeywordRankDeterministic ==
    [][\A s \in Slots :
          rq[s].pc = "s_join" /\ failures' = failures =>
              \A rowOrder \in Orders :
                  keywordRank(rq[s].stats,
                              joinRows(documents, keywords, term_stats,
                                       tokenize(rq[s].query)),
                              rowOrder, rq[s].topK * 2) = rq'[s].kres]_vars

\* the ids of a list of results
idsOf(list) == {list[i].id : i \in DOMAIN list}

\* C22: with duplicate-free lists, reciprocalRankFusion returns one entry
\* for each id of the union of the two lists, in non-increasing order of the
\* fused score; an entry has a vectorScore exactly when its id is in the
\* vector list, and a keywordScore exactly when it is in the keyword list,
\* each the score of the input; with no keyword result the order is that
\* of the vector list.
C22_FusionShape ==
    \A s \in DOMAIN rq :
        Fused(s) =>
            LET v == rq[s].vres
                k == rq[s].kres
                f == rq[s].fused
            IN  /\ idsOf(f) = idsOf(v) \cup idsOf(k)
                /\ Len(f) = Cardinality(idsOf(v) \cup idsOf(k))
                /\ \A p, q \in DOMAIN f :
                      p < q => ~RatLess(f[p].rrfScore, f[q].rrfScore)
                /\ \A p \in DOMAIN f :
                      /\ f[p].vectorScore # None <=> f[p].id \in idsOf(v)
                      /\ f[p].keywordScore # None <=> f[p].id \in idsOf(k)
                      /\ \A i \in DOMAIN v :
                            v[i].id = f[p].id => f[p].vectorScore = Some(v[i].score)
                      /\ \A j \in DOMAIN k :
                            k[j].id = f[p].id => f[p].keywordScore = Some(k[j].score)
                /\ k = << >> => [p \in DOMAIN f |-> f[p].id] = [i \in DOMAIN v |-> v[i].id]

\* fused lists in which a chunk of the keyword list only comes before a
\* chunk of the vector list
C22_Witness ==
    \E s \in DOMAIN rq :
        /\ Fused(s)
        /\ \E p, q \in DOMAIN rq[s].fused :
              /\ p < q
              /\ rq[s].fused[p].vectorScore = None
              /\ rq[s].fused[q].vectorScore # None
        /\ \E p \in DOMAIN rq[s].fused :
              rq[s].fused[p].vectorScore # None /\ rq[s].fused[p].keywordScore # None

\* the chunk rows, the postings and the vectors whose parent is d
rowsOfParent(docs, d) == {r \in docs : r.parent_id = d}

postingsOfParent(docs, kw, d) ==
    {k \in BagToSet(kw) : k.document_id \in {r.id : r \in rowsOfParent(docs, d)}}

vectorsOfParent(vecs, d) == {v \in vecs : v.parentId = d}

\* C23: an ingest or a delete of the document e leaves the chunk rows, the
\* postings and the vectors of every other document d as they are, also when
\* one of the two ids has the form of a chunk id of the other (in behaviours
\* without a collaborator failure).
C23_CrossDocumentIsolation ==
    [][\A s \in Slots, d \in DocIds :
          rq[s].op \in {"ingest", "delete"} /\ rq[s].id # d /\ failures' = 0 =>
              /\ rowsOfParent(documents', d) = rowsOfParent(documents, d)
              /\ postingsOfParent(documents', keywords', d)
                    = postingsOfParent(documents, keywords, d)
              /\ vectorsOfParent(vectors', d) = vectorsOfParent(vectors, d)]_vars

\* the rows and the vectors of d are those of one ingestion of d with the
\* given content, in both stores
FromOneIngestion(d, content) ==
    /\ rowsOfParent(documents, d) \subseteq {documentRow(c) : c \in chunksOf(d, content)}
    /\ vectorsOfParent(vectors, d) \subseteq {vectorOf(c) : c \in chunksOf(d, content)}

\* C24: once two concurrent ingests of the same id with different content
\* have both ended (no collaborator failed), the documents table and the
\* vector index hold the same chunk ids for that id, with the content of one
\* of the two ingestions only.
C24_ConcurrentIngestConsistent ==
    (/\ \A s \in DOMAIN rq : rq[s].op = "ingest" /\ rq[s].pc = "done"
     /\ failures = 0) =>
        /\ {r.id : r \in rowsOfParent(documents, << "a" >>)}
              = {v.id : v \in vectorsOfParent(vectors, << "a" >>)}
        /\ \E s \in DOMAIN rq : FromOneIngestion(<< "a" >>, rq[s].content)

\* C25: a search with a valid topK that is answered returns min(topK, number
\* of fused candidates) results, with the reranker off, on and answering, or
\* on and failing.
C25_ResultCount ==
    \A s \in Slots :
        SearchDone(s) /\ rq[s].resp.status = 200 =>
            Len(rq[s].resp.results) =
                (IF rq[s].topK <= Len(rq[s].fused) THEN rq[s].topK ELSE Len(rq[s].fused))

\* C26: without a lexical store, after delete(d) has completed the vector
\* index holds no chunk of d, and after d has been ingested again it holds
\* only the chunks of that last ingestion of d.
C26_NoStaleVectorsWithoutDB ==
    ~hasDB /\ failures = 0 =>
        /\ Last("delete") => vectorsOfParent(vectors, hist.id) = {}
        /\ Last("ingest") =>
              vectorsOfParent(vectors, hist.id)
                  \subseteq {vectorOf(c) : c \in chunksOf(hist.id, hist.content)}

\* the string p occurs in the string c
occursIn(p, c) ==
    \E off \in 0..(Len(c) - Len(p)) :
        /\ p = << >> \/ (c[off + 1] = p[1] /\ c[off + Len(p)] = p[Len(p)])
        /\ SubSeq(c, off + 1, off + Len(p)) = p

\* C27: every non-blank paragraph of the text is in the content of a chunk
\* that chunk(text, documentId) returns; and when chunks were emitted and the
\* last buffer is discarded for being shorter than minChunkSize, what that
\* buffer holds is in the chunk emitted before it.
C27_NoContentLost ==
    \A s \in DOMAIN rq :
        Chunked(s) =>
            LET paragraphs == paragraphsOf(rq[s].content)
                exit == chunkLoop(paragraphs, 1, << >>, 0, << >>, rq[s].id)
                chunks == rq[s].chunks
            IN  /\ \A i \in DOMAIN paragraphs :
                      \E k \in DOMAIN chunks :
                          occursIn(trim(paragraphs[i]), chunks[k].content)
                /\ exit.chunks # << >> /\ Len(trim(exit.currentChunk)) < minChunkSize =>
                      occursIn(trim(exit.currentChunk), chunks[Len(chunks)].content)

\* C28: the doc_length of every row that the search joins is the length that
\* indexDocument added to the running average for the chunk of the row, the
\* number of its tokens; with one chunk in the corpus doc_length equals
\* avg_doc_length.
C28_LengthSameUnit ==
    \A s \in Slots :
        rq[s].op = "search" /\ rq[s].pc = "s_join" /\ failures = 0 =>
            \A r \in joinRows(documents, keywords, term_stats, tokenize(rq[s].query)) :
                /\ r.doc_length = Len(tokenize(r.content))
                /\ rq[s].stats.total_documents = 1 =>
                      r.doc_length * rq[s].stats.avg_doc_length.d
                          = rq[s].stats.avg_doc_length.n

\* C29: in every state of the lexical store the document frequency of every
\* term is between 1 and total_documents; for every row that a search joins,
\* the argument (N + 1) / (df + 0.5) of the logarithm of the idf is above 1
\* and idf * tf is above 0.
C29_DocumentFrequencyInRange ==
    /\ \A t \in DOMAIN term_stats :
          1 <= term_stats[t] /\ term_stats[t] <= doc_stats.total_documents
    /\ \A s \in Slots :
          rq[s].op = "search" /\ rq[s].pc = "s_join" =>
              \A r \in joinRows(documents, keywords, term_stats, tokenize(rq[s].query)) :
                  /\ 2 * rq[s].stats.total_documents + 2 > 2 * r.document_frequency + 1
                  /\ bm25Term(rq[s].stats, r) > 0

\* a search is about to score rows after a delete has left the statistics
\* above the rows that exist, with a term that is in every chunk counted
C29_Witness ==
    \E s \in Slots :
        /\ rq[s].op = "search" /\ rq[s].pc = "s_join"
        /\ joinRows(documents, keywords, term_stats, tokenize(rq[s].query)) # {}
        /\ doc_stats.total_documents > Cardinality(documents)
        /\ \E t \in DOMAIN term_stats : term_stats[t] = doc_stats.total_documents

\* C30: the content of every chunk that chunk(text, documentId) returns has
\* at most maxChunkSize characters.
C30_ChunkWithinMaxSize ==
    \A s \in DOMAIN rq :
        Chunked(s) =>
            \A i \in DOMAIN rq[s].chunks : Len(rq[s].chunks[i].content) <= maxChunkSize

====
